---------------------------- MODULE Spec2Model ----------------------------
(***************************************************************************)
(* Model of the generation / validation / retry engine of metta-nl-corpus  *)
(* (src/metta_nl_corpus/services/defs/transformation/assets.py).           *)
(*                                                                         *)
(* Text is a sequence of one-character strings.  An optional text that is  *)
(* absent is NoneText; a raised exception is carried in the `exc` field of *)
(* a call's outcome.                                                       *)
(***************************************************************************)
EXTENDS Integers, Sequences, FiniteSets, TLC

VARIABLES
    \* ---- Expression Extractor (parse_metta_expression / extract_metta_expression)
    content,        \* the raw response handed to the extractor
    xpc,            \* "start" | "parsed" | "extracted"
    parsed,         \* value returned by parse_metta_expression(content)
    outcome,        \* outcome of extract_metta_expression(content) / generate_fn
    reextracted,    \* outcome of extracting the extracted expression again
    \* ---- Retry Orchestrator (generate_and_validate)
    label,                  \* argument `label`
    annotation_model,       \* argument `annotation_model`
    max_attempts,           \* argument `max_attempts`
    pc,                     \* position in generate_and_validate
    attempt,                \* loop variable of `for attempt in range(max_attempts)`
    additional_context,     \* local `additional_context`
    last_metta_premise,     \* local `last_metta_premise`
    last_metta_hypothesis,  \* local `last_metta_hypothesis`
    metta_premise_result,   \* local `metta_premise_result`
    ret,                    \* what the call returned (or that it raised)
    backend_log,            \* history: the generate_fn calls made, in order
    verdicts,               \* history: the validator calls made, in order
    \* ---- Contradiction Validator (validate_expressions_are_contradictory)
    background,     \* the background-knowledge document on disk
    space,          \* atoms of the reasoning context of the latest call
    vcalls,         \* history: the validation calls made, in order
    \* ---- Batch Runner (process_in_batches)
    rows,             \* argument `rows`
    subset_size,      \* argument `subset_size`
    batch_size,       \* argument `batch_size`
    process_fn,       \* argument `process_fn`: "process" (any callable) | "process_row"
    bpc,              \* "idle" | "loop" | "batch" | "returned" | "raised"
    loop_i,           \* loop variable `i` of `for i in range(0, len(rows_to_process), batch_size)`
    batch,            \* local `batch`
    batch_results,    \* results of the list comprehension over `batch` so far
    processed_rows,   \* local `processed_rows`
    process_calls,    \* history: the process_fn calls made, in order
    \* ---- Annotation Store (data_annotations and the assets it reads)
    store_exists,                 \* whether the file ANNOTATIONS_PATH exists
    store,                        \* the records of the file ANNOTATIONS_PATH
    preprocessed_training_data,   \* asset `preprocessed_training_data`
    cached_annotations,           \* asset `cached_annotations` as the run read it
    dpc,                          \* "idle" | "ready" | "batches" | "succeeded" | "failed"
    run_error,                    \* the exception that ended the run, or NoExc
    generated,                    \* history: the generate_and_validate calls of the run
    runs,                         \* number of runs started
    store_log,                    \* history: the accesses of the run to the store file
    pipeline_config,              \* resource `pipeline_config` of the run
    \* ---- Pipeline Executor (PipelineExecutor.execute_pipeline)
    epc,                 \* "idle" | "ready" | "called" | "returned" | "raised"
    call_config,         \* argument `pipeline_config` of the call
    execute_calls,       \* number of calls of execute_pipeline made
    execution_results    \* history: the ExecutionResult each call returned

xvars == <<content, xpc, parsed, outcome, reextracted>>
vvars == <<background, space, vcalls>>
gvars == <<label, annotation_model, max_attempts, pc, attempt, additional_context,
           last_metta_premise, last_metta_hypothesis, metta_premise_result, ret,
           backend_log, verdicts>>
bvars == <<rows, subset_size, batch_size, process_fn, bpc, loop_i, batch,
           batch_results, processed_rows, process_calls>>
pvars == <<store_exists, store, preprocessed_training_data, cached_annotations,
           dpc, run_error, generated, runs, store_log, pipeline_config>>
evars == <<epc, call_config, execute_calls, execution_results>>
vars == <<xvars, gvars, vvars, bvars, pvars, evars>>

-----------------------------------------------------------------------------
(* Bounds of the model *)

\* body lines of a generated response, between the optional prose and fences
MaxBody == 2
\* largest max_attempts argument tried
MaxAttempts == 3
\* validation calls made one after the other
MaxValidations == 2
\* longest `rows` argument handed to process_in_batches
MaxRows == 6
\* largest subset_size tried
MaxSubsetSize == 5
\* largest batch_size tried
MaxBatchSize == 3
\* pipeline runs made one after the other over the same store file
MaxRuns == 2
\* largest subset_size and batch_size of the configuration of a pipeline run
MaxRunSubsetSize == 3
MaxRunBatchSize == 2

-----------------------------------------------------------------------------
(* Text primitives: the str methods the extractor uses *)

NoneText == <<"None">>
NoneReason == "None"
NoExc == "None"

\* the backtick character (a TLA+ string cannot hold it)
Backtick == "BACKTICK"

Min(S) == CHOOSE x \in S : \A y \in S : x <= y
Max(S) == CHOOSE x \in S : \A y \in S : x >= y

\* characters at which str.splitlines breaks a line (of the modelled alphabet)
IsLineBreak(c) == c \in {"\n", "\r"}

\* characters str.strip removes (of the modelled alphabet)
IsSpace(c) == c \in {" ", "\n", "\r"}

RECURSIVE SplitFrom(_, _, _, _)
SplitFrom(s, i, cur, acc) ==
    IF i > Len(s)
    THEN (IF Len(cur) = 0 THEN acc ELSE Append(acc, cur))
    ELSE IF i < Len(s) /\ s[i] = "\r" /\ s[i + 1] = "\n"
    THEN SplitFrom(s, i + 2, <<>>, Append(acc, cur))
    ELSE IF IsLineBreak(s[i])
    THEN SplitFrom(s, i + 1, <<>>, Append(acc, cur))
    ELSE SplitFrom(s, i + 1, Append(cur, s[i]), acc)

\* str.splitlines(): "\r\n" is one break, no empty last line after a final
\* break, and "" has no lines
splitlines(s) == SplitFrom(s, 1, <<>>, <<>>)

RECURSIVE join(_)
\* "\n".join(lines)
join(lines) ==
    IF Len(lines) = 0 THEN <<>>
    ELSE IF Len(lines) = 1 THEN lines[1]
    ELSE lines[1] \o <<"\n">> \o join(Tail(lines))

StripLeft(s) ==
    LET keep == {i \in 1..Len(s) : ~IsSpace(s[i])}
    IN  IF keep = {} THEN <<>> ELSE SubSeq(s, Min(keep), Len(s))

\* str.strip()
strip(s) ==
    LET keep == {i \in 1..Len(s) : ~IsSpace(s[i])}
    IN  IF keep = {} THEN <<>> ELSE SubSeq(s, Min(keep), Max(keep))

\* the fence marker (three backticks) occurs in line
HasFence(line) ==
    \E i \in 1..(Len(line) - 2) :
        line[i] = Backtick /\ line[i + 1] = Backtick /\ line[i + 2] = Backtick

-----------------------------------------------------------------------------
(* Expression Extractor *)

\* the IndexError raised by expression_lines[-1] on an empty list
IndexError == <<"IndexError">>

\* if <fence> in expression_lines[0]: expression_lines = expression_lines[1:]
DropOpeningFence(lines) ==
    IF HasFence(lines[1]) THEN Tail(lines) ELSE lines

KeepClosingFence(lines) == lines

\* if <fence> in expression_lines[-1]: expression_lines = expression_lines[:-1]
DropClosingFence(lines) ==
    IF HasFence(lines[Len(lines)]) THEN SubSeq(lines, 1, Len(lines) - 1) ELSE lines

parse_metta_expression(expression) ==
    LET expression_lines == splitlines(expression)
    IN  IF Len(expression_lines) >= 1
        THEN LET opened == DropOpeningFence(expression_lines)
             IN  IF Len(opened) = 0
                 THEN IndexError
                 ELSE strip(join(DropClosingFence(opened)))
        ELSE expression

GenerationResult(e, r) == [exc |-> NoExc, expression |-> e, failure_reason |-> r]
Raises(e) == [exc |-> e, expression |-> NoneText, failure_reason |-> NoneReason]

NO_CONTENT == "no_content"
EMPTY_EXPRESSION == "empty_expression"

FalsyOnlyNone(x) == x = NoneText

\* Python truthiness of an optional text: `not x` is true of None and of ""
Falsy(x) == x = NoneText \/ Len(x) = 0

extract_metta_expression(c) ==
    IF Falsy(c)
    THEN GenerationResult(NoneText, NO_CONTENT)
    ELSE LET trimmed == parse_metta_expression(c)
         IN  IF trimmed = IndexError
             THEN Raises("IndexError")
             ELSE IF Falsy(trimmed)
             THEN GenerationResult(NoneText, EMPTY_EXPRESSION)
             ELSE GenerationResult(trimmed, NoneReason)

-----------------------------------------------------------------------------
(* Generation Backend: the two generate_fn variants *)

\* the provider call raised (error, timeout, malformed payload)
ProviderFailure == <<"ProviderFailure">>

\* str.startswith(prefix)
startswith(s, prefix) ==
    Len(s) >= Len(prefix) /\ SubSeq(s, 1, Len(prefix)) = prefix

IsOpenAIGptOnly(model) == startswith(model, <<"g", "p", "t">>)

\* is_openai = annotation_model.startswith(("gpt", "o1"))
is_openai(model) ==
    startswith(model, <<"g", "p", "t">>) \/ startswith(model, <<"o", "1">>)

\* the provider call is inside try/except: a failure becomes NO_CONTENT; the
\* extraction of the content is outside it
openai_generate_from_template(response) ==
    IF response = ProviderFailure
    THEN GenerationResult(NoneText, NO_CONTENT)
    ELSE extract_metta_expression(response)

\* no try/except around chat(): a provider failure propagates
ollama_generate_from_template(response) ==
    IF response = ProviderFailure
    THEN Raises("ProviderError")
    ELSE extract_metta_expression(response)

\* generate_fn = openai_... if is_openai else ollama_...
generate_fn(model, response) ==
    IF is_openai(model)
    THEN openai_generate_from_template(response)
    ELSE ollama_generate_from_template(response)

Variant(model) == IF is_openai(model) THEN "openai" ELSE "ollama"

-----------------------------------------------------------------------------
(* Contradiction Validator *)

\* what the reasoning engine does with a pair: the truth/falsity query has
\* an instance, has none, or some step raises
EngineOutcomes == {"instance", "no_instance", "error"}

ValidateErrorAsTrue(metta_premise, metta_hypothesis, engine) ==
    ~(Falsy(metta_premise) \/ Falsy(metta_hypothesis)) /\ engine # "no_instance"

validate_expressions_are_contradictory(metta_premise, metta_hypothesis, engine) ==
    IF Falsy(metta_premise) \/ Falsy(metta_hypothesis)
    THEN FALSE
    ELSE engine = "instance"

\* whether the call gets as far as `runner = MeTTa()`
CreatesRunner(metta_premise, metta_hypothesis) ==
    ~(Falsy(metta_premise) \/ Falsy(metta_hypothesis))

\* states of the background-knowledge document: readable and defining the
\* truth and falsity spaces, unreadable, or readable without those spaces
Backgrounds == {"ok", "unreadable", "no_spaces"}

\* an expression the engine cannot parse
Malformed(expr) == expr = <<"(">>

\* the truth and the falsity space share an instance: here, when both the
\* atom a and the atom b were asserted
Contradicts(atoms) == <<"a">> \in atoms /\ <<"b">> \in atoms

\* a runner left over from the previous call
ReusedRunner == space

\* `runner = MeTTa()`: a reasoning context with nothing asserted
NewRunner == {}

\* lines 134-158 on a runner whose space holds `atoms`: read and load the
\* document, run the premise, run the hypothesis, run the query
EngineRun(metta_premise, metta_hypothesis, bg, atoms) ==
    LET loaded == atoms \cup {<<"background">>}
        with_premise == loaded \cup {metta_premise}
        with_both == with_premise \cup {metta_hypothesis}
    IN  IF bg = "unreadable"
        THEN [engine |-> "error", atoms |-> atoms]
        ELSE IF Malformed(metta_premise)
        THEN [engine |-> "error", atoms |-> loaded]
        ELSE IF Malformed(metta_hypothesis)
        THEN [engine |-> "error", atoms |-> with_premise]
        ELSE IF bg = "no_spaces"
        THEN [engine |-> "error", atoms |-> with_both]
        ELSE [engine |-> IF Contradicts(with_both) THEN "instance" ELSE "no_instance",
              atoms |-> with_both]

-----------------------------------------------------------------------------
(* Retry Orchestrator: generate_and_validate *)

ENTAILMENT == "entailment"
NEUTRAL == "neutral"
\* RelationKind.CONTRADICTION, with the text the source gives it
CONTRADICTION == "contradication"
NO_LABEL == "no_label"
RelationKind == {ENTAILMENT, NEUTRAL, CONTRADICTION, NO_LABEL}

NoContext == [present |-> FALSE, metta_premise |-> NoneText, metta_hypothesis |-> NoneText]

CorrectiveContextOnce(p, h) ==
    IF additional_context.present
    THEN additional_context
    ELSE [present |-> TRUE, metta_premise |-> p, metta_hypothesis |-> h]

\* additional_context = f"The previous result was not a contradiction ...
\* metta_premise={last_metta_premise} metta_hypothesis={last_metta_hypothesis}"
CorrectiveContext(p, h) == [present |-> TRUE, metta_premise |-> p, metta_hypothesis |-> h]

\* metta_hypothesis_context: narrates the premise expression just generated,
\* then the additional context when there is one
HypothesisContext(premise_expression, ctx) ==
    [narrates |-> premise_expression, additional |-> ctx]

Running == [status |-> "running", metta_premise |-> NoneText,
            metta_hypothesis |-> NoneText, is_valid |-> FALSE, exc |-> NoExc]
Returned(p, h, v) == [status |-> "returned", metta_premise |-> p,
                      metta_hypothesis |-> h, is_valid |-> v, exc |-> NoExc]
Raised(e) == [status |-> "raised", metta_premise |-> NoneText,
              metta_hypothesis |-> NoneText, is_valid |-> FALSE, exc |-> e]

\* `for attempt in range(max_attempts)`: is there an iteration after `a`
RangeHasNextOffByOne(a, k) == a < k
RangeHasNext(a, k) == a + 1 < k

\* the condition of the `if` at lines 235-241: `v and l == C or l != C`
AcceptsOnlyValidated(v, l) == v /\ (l = CONTRADICTION \/ l # CONTRADICTION)
AcceptsContradictionOnly(v, l) == v /\ l = CONTRADICTION
Accepts(v, l) == (v /\ l = CONTRADICTION) \/ l # CONTRADICTION

Call(statement, ctx, response) ==
    [variant |-> Variant(annotation_model), statement |-> statement,
     attempt |-> attempt, context |-> ctx,
     provider_ok |-> response # ProviderFailure,
     expression |-> generate_fn(annotation_model, response).expression]

\* history read-outs
CallsOf(statement) == SelectSeq(backend_log, LAMBDA c : c.statement = statement)
premise_calls == Len(CallsOf("premise"))
hypothesis_calls == Len(CallsOf("hypothesis"))

-----------------------------------------------------------------------------
(* Responses the extractor is run on *)

FenceLine == <<Backtick, Backtick, Backtick>>
TaggedFenceLine == <<Backtick, Backtick, Backtick, "a">>

\* lines a response body is made of: blank, plain, indented, single
\* backticks, semicolon inside the line, comment, indented comment, fences
BodyLines ==
    { <<>>, <<"a">>, <<" ", "a">>, <<Backtick, "a", Backtick>>, <<"a", ";">>,
      <<";", "a">>, <<" ", ";">>, FenceLine }

LineBreaks == { <<"\n">>, <<"\r">>, <<"\r", "\n">> }

RECURSIVE JoinWith(_, _)
JoinWith(lines, br) ==
    IF Len(lines) = 0 THEN <<>>
    ELSE IF Len(lines) = 1 THEN lines[1]
    ELSE lines[1] \o br \o JoinWith(Tail(lines), br)

Bodies == UNION { [1..n -> BodyLines] : n \in 0..MaxBody }

\* a response: optional prose, optional opening fence, body, optional
\* closing fence, optional prose, one line-break style, optional final break
Responses ==
    { JoinWith(pre \o open \o body \o close \o post, br) \o fin :
        pre \in {<<>>, << <<"a">> >>},
        open \in {<<>>, <<FenceLine>>, <<TaggedFenceLine>>},
        body \in Bodies,
        close \in {<<>>, <<FenceLine>>},
        post \in {<<>>, << <<"a">> >>},
        br \in LineBreaks,
        fin \in {<<>>, <<"\n">>} }

Contents == Responses \cup {NoneText}

-----------------------------------------------------------------------------
(* The parts of the state a specification of another part leaves alone *)

GInitIdle ==
    /\ label = "no_label"
    /\ annotation_model = <<>>
    /\ max_attempts = 1
    /\ pc = "idle"
    /\ attempt = 0
    /\ additional_context = NoContext
    /\ last_metta_premise = NoneText
    /\ last_metta_hypothesis = NoneText
    /\ metta_premise_result = GenerationResult(NoneText, NoneReason)
    /\ ret = Running
    /\ backend_log = <<>>
    /\ verdicts = <<>>

VInitIdle ==
    /\ background = "ok"
    /\ space = {}
    /\ vcalls = <<>>

\* no run was configured yet
NoConfig == [hf_id |-> <<>>, model_name |-> <<>>, version |-> <<>>,
             max_attempts_option |-> 0]

BInitIdle ==
    /\ rows = <<>>
    /\ subset_size = 1
    /\ batch_size = 1
    /\ process_fn = "process"
    /\ bpc = "idle"
    /\ loop_i = 0
    /\ batch = <<>>
    /\ batch_results = <<>>
    /\ processed_rows = <<>>
    /\ process_calls = <<>>

PInitIdle ==
    /\ store_exists = FALSE
    /\ store = {}
    /\ preprocessed_training_data = <<>>
    /\ cached_annotations = {}
    /\ dpc = "idle"
    /\ run_error = NoExc
    /\ generated = <<>>
    /\ runs = 0
    /\ store_log = <<>>
    /\ pipeline_config = NoConfig

-----------------------------------------------------------------------------
(* Specification of the orchestrator: one call of generate_and_validate *)

Fenced(text) == FenceLine \o <<"\n">> \o text \o <<"\n">> \o FenceLine

\* what a provider call can come back with: a failure, no content, an empty
\* string, a lone fence line, an empty fenced block, a bare expression, a
\* fenced expression
ProviderResponses ==
    { ProviderFailure, NoneText, <<>>, FenceLine, FenceLine \o <<"\n">> \o FenceLine,
      <<"a">>, Fenced(<<"b">>) }

\* model identifiers: gpt4, o1, gemma, o3
Models == { <<"g", "p", "t", "4">>, <<"o", "1">>,
            <<"g", "e", "m", "m", "a">>, <<"o", "3">> }

\* labels a caller passes: the RelationKind texts and the spec's "contradiction"
Labels == RelationKind \cup {"contradiction"}

EInitIdle ==
    /\ epc = "idle"
    /\ call_config = NoConfig
    /\ execute_calls = 0
    /\ execution_results = <<>>

XInitIdle ==
    /\ content = NoneText
    /\ xpc = "idle"
    /\ parsed = NoneText
    /\ outcome = GenerationResult(NoneText, NoneReason)
    /\ reextracted = GenerationResult(NoneText, NoneReason)

GInit ==
    /\ label \in Labels
    /\ annotation_model \in Models
    /\ max_attempts \in 1..MaxAttempts
    /\ pc = "premise"
    /\ attempt = 0
    /\ additional_context = NoContext
    /\ last_metta_premise = NoneText
    /\ last_metta_hypothesis = NoneText
    /\ metta_premise_result = GenerationResult(NoneText, NoneReason)
    /\ ret = Running
    /\ backend_log = <<>>
    /\ verdicts = <<>>
    /\ XInitIdle
    /\ VInitIdle
    /\ BInitIdle
    /\ PInitIdle
    /\ EInitIdle

NextIterationEarlierPair(p, h) ==
    IF RangeHasNext(attempt, max_attempts)
    THEN /\ attempt' = attempt + 1
         /\ pc' = "premise"
         /\ ret' = ret
    ELSE /\ attempt' = attempt
         /\ pc' = "done"
         /\ ret' = IF Len(verdicts) > 0
                     THEN Returned(verdicts[1].metta_premise,
                                   verdicts[1].metta_hypothesis, FALSE)
                     ELSE Returned(p, h, FALSE)

NextIterationForgets(p, h) ==
    IF RangeHasNext(attempt, max_attempts)
    THEN /\ attempt' = attempt + 1
         /\ pc' = "premise"
         /\ ret' = ret
    ELSE /\ attempt' = attempt
         /\ pc' = "done"
         /\ ret' = Returned(NoneText, NoneText, FALSE)

\* leaving the loop body without a return: next iteration, or fall out of the
\* loop to `return (last_metta_premise, last_metta_hypothesis, False)`
NextIteration(p, h) ==
    IF RangeHasNext(attempt, max_attempts)
    THEN /\ attempt' = attempt + 1
         /\ pc' = "premise"
         /\ ret' = ret
    ELSE /\ attempt' = attempt
         /\ pc' = "done"
         /\ ret' = Returned(p, h, FALSE)

\* lines 202-211: premise generation, and `continue` when it has no expression
GeneratePremise ==
    /\ pc = "premise"
    /\ \E response \in ProviderResponses :
        LET r == generate_fn(annotation_model, response)
        IN  /\ backend_log' = Append(backend_log, Call("premise", additional_context, response))
            /\ IF r.exc # NoExc
               THEN /\ pc' = "raised"
                    /\ ret' = Raised(r.exc)
                    /\ UNCHANGED <<attempt, metta_premise_result>>
               ELSE /\ metta_premise_result' = r
                    /\ IF Falsy(r.expression)
                       THEN NextIteration(last_metta_premise, last_metta_hypothesis)
                       ELSE /\ pc' = "hypothesis"
                            /\ UNCHANGED <<attempt, ret>>
    /\ UNCHANGED <<label, annotation_model, max_attempts, additional_context,
                   last_metta_premise, last_metta_hypothesis, verdicts, xvars, vvars, bvars, pvars, evars>>

\* lines 213-225: hypothesis generation, then both results become "last"
GenerateHypothesis ==
    /\ pc = "hypothesis"
    /\ \E response \in ProviderResponses :
        LET r == generate_fn(annotation_model, response)
            ctx == HypothesisContext(metta_premise_result.expression, additional_context)
        IN  /\ backend_log' = Append(backend_log, Call("hypothesis", ctx, response))
            /\ IF r.exc # NoExc
               THEN /\ pc' = "raised"
                    /\ ret' = Raised(r.exc)
                    /\ UNCHANGED <<last_metta_premise, last_metta_hypothesis>>
               ELSE /\ last_metta_premise' = metta_premise_result.expression
                    /\ last_metta_hypothesis' = r.expression
                    /\ pc' = "validate"
                    /\ ret' = ret
    /\ UNCHANGED <<label, annotation_model, max_attempts, attempt, additional_context,
                   metta_premise_result, verdicts, xvars, vvars, bvars, pvars, evars>>

\* lines 235-245: the validator call, the acceptance test, the corrective context
Validate ==
    /\ pc = "validate"
    /\ \E engine \in EngineOutcomes :
        LET v == validate_expressions_are_contradictory(
                     last_metta_premise, last_metta_hypothesis, engine)
        IN  /\ verdicts' = Append(verdicts,
                    [attempt |-> attempt, result |-> v,
                     runner |-> CreatesRunner(last_metta_premise, last_metta_hypothesis),
                     metta_premise |-> last_metta_premise,
                     metta_hypothesis |-> last_metta_hypothesis])
            /\ IF Accepts(v, label)
               THEN /\ pc' = "done"
                    /\ ret' = Returned(last_metta_premise, last_metta_hypothesis, TRUE)
                    /\ UNCHANGED <<attempt, additional_context>>
               ELSE /\ additional_context' =
                            CorrectiveContext(last_metta_premise, last_metta_hypothesis)
                    /\ NextIteration(last_metta_premise, last_metta_hypothesis)
    /\ UNCHANGED <<label, annotation_model, max_attempts, last_metta_premise,
                   last_metta_hypothesis, metta_premise_result, backend_log, xvars, vvars, bvars, pvars, evars>>

GNext == GeneratePremise \/ GenerateHypothesis \/ Validate

SpecRetry == GInit /\ [][GNext]_vars

\* the call is synchronous: every step it can take, it takes
FairSpecRetry == SpecRetry /\ WF_vars(GNext)

-----------------------------------------------------------------------------
(* Specification of the extractor: calls on one response *)

XInit ==
    /\ content \in Contents
    /\ xpc = "start"
    /\ parsed = NoneText
    /\ outcome = GenerationResult(NoneText, NoneReason)
    /\ reextracted = GenerationResult(NoneText, NoneReason)
    /\ GInitIdle
    /\ VInitIdle
    /\ BInitIdle
    /\ PInitIdle
    /\ EInitIdle

\* a direct call parse_metta_expression(content), as the test-suite makes
Parse ==
    /\ xpc = "start"
    /\ content # NoneText
    /\ parsed' = parse_metta_expression(content)
    /\ xpc' = "parsed"
    /\ UNCHANGED <<content, outcome, reextracted, gvars, vvars, bvars, pvars, evars>>

\* a call extract_metta_expression(content)
Extract ==
    /\ xpc = "start"
    /\ outcome' = extract_metta_expression(content)
    /\ xpc' = "extracted"
    /\ UNCHANGED <<content, parsed, reextracted, gvars, vvars, bvars, pvars, evars>>

\* the extracted expression is handed to extract_metta_expression again
Reextract ==
    /\ xpc = "extracted"
    /\ outcome.exc = NoExc
    /\ outcome.expression # NoneText
    /\ reextracted' = extract_metta_expression(outcome.expression)
    /\ xpc' = "reextracted"
    /\ UNCHANGED <<content, parsed, outcome, gvars, vvars, bvars, pvars, evars>>

\* a call of a backend variant whose provider fails or answers content
Generate ==
    /\ xpc = "start"
    /\ \E model \in Models, failed \in BOOLEAN :
          outcome' = generate_fn(model, IF failed THEN ProviderFailure ELSE content)
    /\ xpc' = "generated"
    /\ UNCHANGED <<content, parsed, reextracted, gvars, vvars, bvars, pvars, evars>>

XNext == Parse \/ Extract \/ Reextract \/ Generate

SpecExtract == XInit /\ [][XNext]_vars

-----------------------------------------------------------------------------
(* Specification of the validator: validation calls one after the other *)

\* expressions handed to the validator: absent, empty, two atoms, a malformed one
VExprs == {NoneText, <<>>, <<"a">>, <<"b">>, <<"(">>}

VInit ==
    /\ background \in Backgrounds
    /\ space = {}
    /\ vcalls = <<>>
    /\ XInitIdle
    /\ GInitIdle
    /\ BInitIdle
    /\ PInitIdle
    /\ EInitIdle

\* one call validate_expressions_are_contradictory(metta_premise, metta_hypothesis)
ValidationCall ==
    /\ Len(vcalls) < MaxValidations
    /\ \E metta_premise \in VExprs, metta_hypothesis \in VExprs :
        LET creates == CreatesRunner(metta_premise, metta_hypothesis)
            run == EngineRun(metta_premise, metta_hypothesis, background, NewRunner)
            engine == IF creates THEN run.engine ELSE "not_run"
        IN  /\ vcalls' = Append(vcalls,
                    [metta_premise |-> metta_premise,
                     metta_hypothesis |-> metta_hypothesis,
                     runner |-> creates,
                     engine |-> engine,
                     result |-> validate_expressions_are_contradictory(
                                    metta_premise, metta_hypothesis, engine)])
            /\ space' = IF creates THEN run.atoms ELSE space
    /\ UNCHANGED <<background, xvars, gvars, bvars, pvars, evars>>

VNext == ValidationCall

SpecValidate == VInit /\ [][VNext]_vars

-----------------------------------------------------------------------------
(* Batch Runner: process_in_batches *)

\* the slice s[a:b] of a list, for 0 <= a and 0 <= b
Slice(s, a, b) == SubSeq(s, a + 1, Min({b, Len(s)}))

\* rows_to_process = rows[:subset_size]
rows_to_process(rs, n) == Slice(rs, 0, n)

BatchEndWholeSubset(a, n, b) == n

\* the end of the slice that makes `batch`: min(subset_size, i + batch_size)
batch_end(a, n, b) == Min({n, a + b})

\* range(0, len(rows_to_process), batch_size) has a value at the loop variable
LoopHasBatch == loop_i < Len(rows_to_process(rows, subset_size))

CaughtException == "batch"

\* process_in_batches has no try/except: an exception of process_fn leaves the
\* list comprehension and the loop
UncaughtException == "raised"

\* what a call of an arbitrary process_fn on a row gives back
Processed(row) == [processed |-> row]

-----------------------------------------------------------------------------
(* Annotation Store: the schema, process_row and the merge of data_annotations *)

DATA_VERSION == "0.0.1"
SUBSET_SIZE == 3

AttributeError == "AttributeError"
SchemaError == "SchemaError"
Null == "null"

\* the fields the model classes declare
TrainingBase == {"premise", "hypothesis"}
TrainingData == TrainingBase \cup {"label"}
Annotations == TrainingBase \cup {"index", "label", "metta_premise",
                                  "metta_hypothesis", "version"}

\* Model.name gives the name of a declared field; any other name is an
\* attribute the class does not have
HasField(model, name) == name \in model

\* the labels str_index(RelationKind, NO_LABEL) gives the source rows; the
\* code only ever compares a label with CONTRADICTION
SourceLabels == {NEUTRAL, CONTRADICTION}

\* a row of preprocessed_training_data: head(SUBSET_SIZE).with_row_index()
SourceRow(n, l) == [index |-> n, premise |-> n, hypothesis |-> n, label |-> l]

SourceFrames ==
    UNION { { [k \in 1..n |-> SourceRow(k - 1, ls[k])] : ls \in [1..n -> SourceLabels] }
            : n \in 0..SUBSET_SIZE }

\* a record of the store file, as a run that reached the write would leave it
AnnotationRecord(row, p, h) ==
    [index |-> row.index, premise |-> row.premise, hypothesis |-> row.hypothesis,
     label |-> row.label, metta_premise |-> p, metta_hypothesis |-> h,
     version |-> DATA_VERSION]

IndexColumn(frame) == {r.index : r \in frame}

KeepsAnnotated(frame, cached) ==
    SelectSeq(frame, LAMBDA r : r.index \in IndexColumn(cached))

\* preprocessed_training_data.filter(~pl.col("index").is_in(cached_annotations["index"]))
unannotated_data_points(frame, cached) ==
    SelectSeq(frame, LAMBDA r : ~(r.index \in IndexColumn(cached)))

\* .select([premise, hypothesis, label]).to_dicts()
to_dicts(frame) ==
    [k \in 1..Len(frame) |-> [premise |-> frame[k].premise,
                              hypothesis |-> frame[k].hypothesis,
                              label |-> frame[k].label]]

\* the results generate_and_validate can give for a label: it raised, it
\* accepted a generated pair, or it ran out of attempts
PossibleResult(r, l) ==
    \/ r.status = "raised"
    \/ /\ r.status = "returned"
       /\ r.is_valid
       /\ r.metta_premise # NoneText
       /\ (l = CONTRADICTION => r.metta_hypothesis # NoneText)
    \/ /\ r.status = "returned"
       /\ ~r.is_valid
       /\ (r.metta_premise = NoneText => r.metta_hypothesis = NoneText)
       /\ (l # CONTRADICTION => r.metta_premise = NoneText)

GenerateAndValidateResults(l) ==
    { r \in { Returned(p, h, v) : p \in {NoneText, <<"a">>},
                                  h \in {NoneText, <<"b">>}, v \in BOOLEAN }
        : PossibleResult(r, l) }

\* the exception of a failing provider, as the run reports it
ProviderError == ProviderFailure[1]

\* the max_attempts option is not given
NotGiven == 0

\* `max_attempts: int = 3` of generate_and_validate
DefaultMaxAttempts == 3

\* the max_attempts process_row calls generate_and_validate with: it passes
\* premise, hypothesis, label and annotation_model only
process_row_max_attempts(cfg) == DefaultMaxAttempts

\* the dict process_row returns: its keys are looked up on the Annotations class
process_row(r) ==
    IF /\ HasField(Annotations, "metta_premise")
       /\ HasField(Annotations, "metta_hypothesis")
       /\ HasField(Annotations, "is_valid")
    THEN [exc |-> NoExc, metta_premise |-> r.metta_premise,
          metta_hypothesis |-> r.metta_hypothesis, is_valid |-> r.is_valid]
    ELSE [exc |-> AttributeError, metta_premise |-> NoneText,
          metta_hypothesis |-> NoneText, is_valid |-> FALSE]

\* unannotated_data_points.head(subset_size).with_columns(generated columns, version)
annotated_data_points(unannotated, n, results) ==
    LET head == Slice(unannotated, 0, n)
    IN  [k \in 1..Len(head) |->
            [index |-> head[k].index, premise |-> head[k].premise,
             hypothesis |-> head[k].hypothesis, label |-> head[k].label,
             metta_premise |-> results[k].metta_premise,
             metta_hypothesis |-> results[k].metta_hypothesis,
             is_valid |-> results[k].is_valid,
             version |-> DATA_VERSION]]

\* the records of a frame, without their order
Records(frame) == {frame[k] : k \in 1..Len(frame)}

\* Annotations.validate(records): every declared field is a column
Annotations_validate(records) ==
    \A r \in records : Annotations \subseteq DOMAIN r

\* pl.concat([cached_annotations, versioned_data], how="align"): the union of
\* the two record sets, a column one side lacks filled with nulls
concat_align(cached, versioned) ==
    { [index |-> r.index, premise |-> r.premise, hypothesis |-> r.hypothesis,
       label |-> r.label, metta_premise |-> r.metta_premise,
       metta_hypothesis |-> r.metta_hypothesis, is_valid |-> Null,
       version |-> r.version] : r \in cached }
    \cup Records(versioned)

-----------------------------------------------------------------------------
(* Specification of the batch runner: one call of process_in_batches *)

BInit ==
    /\ rows \in { [k \in 1..n |-> k] : n \in 0..MaxRows }
    /\ subset_size \in 1..MaxSubsetSize
    /\ batch_size \in 1..MaxBatchSize
    /\ process_fn = "process"
    /\ bpc = "loop"
    /\ loop_i = 0
    /\ batch = <<>>
    /\ batch_results = <<>>
    /\ processed_rows = <<>>
    /\ process_calls = <<>>
    /\ XInitIdle
    /\ GInitIdle
    /\ VInitIdle
    /\ PInitIdle
    /\ EInitIdle

\* the loop header takes the next value of range(...) and slices `batch`
NextBatch ==
    /\ bpc = "loop"
    /\ LoopHasBatch
    /\ LET b == Slice(rows_to_process(rows, subset_size), loop_i,
                      batch_end(loop_i, subset_size, batch_size))
       IN  /\ batch' = b
           /\ batch_results' = <<>>
           /\ IF Len(b) = 0
                THEN bpc' = "loop" /\ loop_i' = loop_i + batch_size
                ELSE bpc' = "batch" /\ loop_i' = loop_i
    /\ UNCHANGED <<rows, subset_size, batch_size, process_fn, processed_rows,
                   process_calls, xvars, gvars, vvars, pvars, evars>>

\* process_fn(row) for the next row of `batch`; after the last row of the batch
\* processed_rows.extend(batch_results).  An exception leaves process_in_batches
\* and, when the caller is data_annotations, ends the run.
ProcessRow ==
    /\ bpc = "batch"
    /\ LET row == batch[Len(batch_results) + 1]
           call == [row |-> row, chunk |-> loop_i]
           done(res) ==
               /\ batch_results' = Append(batch_results, res)
               /\ IF Len(batch_results) + 1 = Len(batch)
                    THEN /\ processed_rows' = processed_rows \o Append(batch_results, res)
                         /\ loop_i' = loop_i + batch_size
                         /\ bpc' = "loop"
                    ELSE UNCHANGED <<processed_rows, loop_i, bpc>>
           raise == /\ bpc' = UncaughtException
                    /\ UNCHANGED <<batch_results, processed_rows, loop_i>>
       IN  /\ process_calls' = Append(process_calls, call)
           /\ IF process_fn = "process_row"
                THEN /\ \/ \E r \in GenerateAndValidateResults(row.label) :
                              /\ generated' = Append(generated,
                                    [row |-> row, result |-> r,
                                     max_attempts |-> process_row_max_attempts(pipeline_config)])
                              /\ IF process_row(r).exc # NoExc
                                   THEN /\ raise
                                        /\ dpc' = "failed"
                                        /\ run_error' = process_row(r).exc
                                   ELSE /\ done(process_row(r))
                                        /\ UNCHANGED <<dpc, run_error>>
                        \/ /\ generated' = Append(generated,
                                    [row |-> row, result |-> Raised(ProviderFailure),
                                     max_attempts |-> process_row_max_attempts(pipeline_config)])
                           /\ raise
                           /\ dpc' = "failed"
                           /\ run_error' = ProviderError
                     /\ UNCHANGED <<store_exists, store, preprocessed_training_data,
                                    cached_annotations, runs, store_log,
                                    pipeline_config>>
                ELSE /\ \/ done(Processed(row))
                        \/ raise
                     /\ UNCHANGED pvars
    /\ UNCHANGED <<rows, subset_size, batch_size, process_fn, batch,
                   xvars, gvars, vvars, evars>>

\* the range is exhausted: return processed_rows
ReturnProcessed ==
    /\ bpc = "loop"
    /\ ~LoopHasBatch
    /\ bpc' = "returned"
    /\ UNCHANGED <<rows, subset_size, batch_size, process_fn, loop_i, batch,
                   batch_results, processed_rows, process_calls,
                   xvars, gvars, vvars, pvars, evars>>

BNext == NextBatch \/ ProcessRow \/ ReturnProcessed

SpecBatch == BInit /\ [][BNext]_vars

-----------------------------------------------------------------------------
(* Specification of the pipeline: runs of data_annotations over one store file *)

\* PROJECT_ROOT / "datasets" / "annotations.parquet"
ANNOTATIONS_PATH ==
    [dir |-> <<"datasets">>, key |-> <<>>, name |-> "annotations.parquet"]

\* str.replace("/", "_")
replace_slash(text) ==
    [k \in 1..Len(text) |-> IF text[k] = "/" THEN "_" ELSE text[k]]

\* PipelineRunConfig.cache_key
cache_key(cfg) ==
    replace_slash(cfg.hf_id \o <<"_">> \o cfg.model_name \o <<"_">> \o cfg.version)

\* PipelineRunConfig.annotations_path
annotations_path(cfg) ==
    [dir |-> <<"datasets", "annotations">>, key |-> cache_key(cfg),
     name |-> "annotations.parquet"]

\* the configurations runs are made with: two dataset ids, one with a path
\* separator, and the max_attempts option asked for when the bundle is built.
\* PipelineRunConfig declares no max_attempts field, so no code reads the option.
PipelineRunConfigs ==
    { [hf_id |-> h, model_name |-> <<"m">>, version |-> <<"1">>,
       max_attempts_option |-> k]
      : h \in { <<"a", "/", "b">>, <<"c">> }, k \in {NotGiven, 1, DefaultMaxAttempts} }

\* an access to a file, with the number of generate_and_validate calls the run
\* had made by then
Access(op, calls) == [op |-> op, generated |-> calls, path |-> ANNOTATIONS_PATH]

LoadsTwice(exists) ==
    (IF exists THEN <<>> ELSE <<Access("create", 0)>>)
        \o <<Access("read", 0), Access("read", 0)>>

\* the accesses of the cached_annotations asset: the file Dataset.annotations,
\* which is ANNOTATIONS_PATH, is created empty if it does not exist, then loaded
cached_annotations_accesses(exists) ==
    (IF exists THEN <<>> ELSE <<Access("create", 0)>>) \o <<Access("read", 0)>>

\* the store file found when the pipeline starts: absent, or records of
\* distinct source indices that satisfy the Annotations schema
Stores(frame) ==
    { { AnnotationRecord(frame[k], <<"a">>, <<"b">>) : k \in S }
      : S \in SUBSET (1..Len(frame)) }

PInit ==
    /\ preprocessed_training_data \in SourceFrames
    /\ store_exists \in BOOLEAN
    /\ store \in Stores(preprocessed_training_data)
    /\ ~store_exists => store = {}
    /\ cached_annotations = {}
    /\ dpc = "ready"
    /\ run_error = NoExc
    /\ generated = <<>>
    /\ runs = 0
    /\ store_log = <<>>
    /\ pipeline_config = NoConfig
    /\ XInitIdle
    /\ GInitIdle
    /\ VInitIdle
    /\ BInitIdle
    /\ EInitIdle

\* a run up to the call of process_in_batches: cached_annotations creates the
\* store file empty if it does not exist, loads and validates it;
\* data_annotations filters the source rows and hands them to the batch runner
StartRun ==
    /\ dpc \in {"ready", "succeeded", "failed"}
    /\ runs < MaxRuns
    /\ runs' = runs + 1
    /\ store_exists' = TRUE
    /\ store_log' = cached_annotations_accesses(store_exists)
    /\ pipeline_config' \in PipelineRunConfigs
    /\ generated' = <<>>
    /\ UNCHANGED <<store, preprocessed_training_data, xvars, gvars, vvars, evars>>
    /\ \E n \in 1..MaxRunSubsetSize, b \in 1..MaxRunBatchSize :
          /\ subset_size' = n
          /\ batch_size' = b
    /\ process_fn' = "process_row"
    /\ loop_i' = 0
    /\ batch' = <<>>
    /\ batch_results' = <<>>
    /\ processed_rows' = <<>>
    /\ process_calls' = <<>>
    /\ IF Annotations_validate(store)
         THEN /\ cached_annotations' = store
              /\ rows' = to_dicts(unannotated_data_points(
                                      preprocessed_training_data, store))
              /\ bpc' = "loop"
              /\ dpc' = "batches"
              /\ run_error' = NoExc
         ELSE /\ cached_annotations' = {}
              /\ rows' = <<>>
              /\ bpc' = "idle"
              /\ dpc' = "failed"
              /\ run_error' = SchemaError

\* data_annotations after process_in_batches returned: the frame of the
\* generated columns, the annotated rows, validation, merge and write
FinishRun ==
    /\ dpc = "batches"
    /\ bpc = "returned"
    /\ bpc' = "idle"
    /\ LET unannotated == unannotated_data_points(preprocessed_training_data,
                                                  cached_annotations)
           annotated == annotated_data_points(unannotated, subset_size,
                                              processed_rows)
       IN  IF ~ /\ HasField(Annotations, "metta_premise")
                /\ HasField(Annotations, "metta_hypothesis")
                /\ HasField(Annotations, "is_valid")
             THEN /\ dpc' = "failed"
                  /\ run_error' = AttributeError
                  /\ UNCHANGED <<store, store_log>>
             ELSE IF ~Annotations_validate(Records(annotated))
                    THEN /\ dpc' = "failed"
                         /\ run_error' = SchemaError
                         /\ UNCHANGED <<store, store_log>>
                    ELSE /\ store' = concat_align(cached_annotations, annotated)
                         /\ store_log' = Append(store_log,
                                                Access("write", Len(generated)))
                         /\ dpc' = "succeeded"
                         /\ run_error' = NoExc
    /\ UNCHANGED <<rows, subset_size, batch_size, process_fn, loop_i, batch,
                   batch_results, processed_rows, process_calls,
                   store_exists, preprocessed_training_data, cached_annotations,
                   generated, runs, pipeline_config, xvars, gvars, vvars, evars>>

PNext == StartRun \/ NextBatch \/ ProcessRow \/ ReturnProcessed \/ FinishRun

SpecPipeline == PInit /\ [][PNext]_vars

-----------------------------------------------------------------------------
(* Pipeline Executor: PipelineExecutor.execute_pipeline *)

\* class ExecutionStatus, the members execute_pipeline uses
SUCCESS == "success"
FAILED == "failed"
ERROR == "error"

\* class ExecutionResult: the fields not given keep the default None
ExecutionResult(status, key, path, count, dataset, model, error) ==
    [status |-> status, cache_key |-> key, annotations_path |-> path,
     annotations_count |-> count, dataset |-> dataset, model |-> model,
     error |-> error, message |-> Null]

\* what `materialize(..., raise_on_error=False)` does: it returns a result
\* that reports success or failure, or it raises an exception whose str() is
\* `message`
MaterializeResult(success) ==
    [kind |-> "result", success |-> success, message |-> ""]
MaterializeRaised(message) ==
    [kind |-> "raised", success |-> FALSE, message |-> message]

\* str(e) of the exceptions materialize raises; an exception without
\* arguments has the empty string
ExceptionMessages == {"", "DagsterError"}

MaterializeOutcomes ==
    {MaterializeResult(b) : b \in BOOLEAN}
        \cup {MaterializeRaised(m) : m \in ExceptionMessages}

\* the inner try: `len(pl.read_parquet(pipeline_config.annotations_path))`,
\* or 0 when the read raises; the one parquet file there is, is the file
\* ANNOTATIONS_PATH
annotations_count(cfg, exists, frame) ==
    IF annotations_path(cfg) = ANNOTATIONS_PATH /\ exists
      THEN Cardinality(frame)
      ELSE 0

\* what a call does in the end: it returns an ExecutionResult or raises
ExecReturns(result) == [raised |-> FALSE, result |-> result]
ExecRaises(result) == [raised |-> TRUE, result |-> result]

ExceptReraises(key, message) ==
    ExecRaises(ExecutionResult(ERROR, key, Null, Null, Null, Null, message))

\* `except Exception as e:` the handler returns the ERROR result with str(e)
except_Exception(key, message) ==
    ExecReturns(ExecutionResult(ERROR, key, Null, Null, Null, Null, message))

\* execute_pipeline from the outcome of materialize on
execute_pipeline(cfg, materialized, exists, frame) ==
    LET key == cache_key(cfg)
    IN  IF materialized.kind = "raised"
          THEN except_Exception(key, materialized.message)
          ELSE IF materialized.success
                 THEN ExecReturns(ExecutionResult(
                          SUCCESS, key, annotations_path(cfg),
                          annotations_count(cfg, exists, frame),
                          cfg.hf_id, cfg.model_name, Null))
                 ELSE ExecReturns(ExecutionResult(
                          FAILED, key, Null, Null, Null, Null,
                          "Pipeline execution failed. Check logs for details."))

\* the configurations execute_pipeline is called with
ExecutorConfigs ==
    {cfg \in PipelineRunConfigs : cfg.max_attempts_option = NotGiven}

EInit ==
    /\ preprocessed_training_data \in
           {frame \in SourceFrames : Len(frame) \in {0, SUBSET_SIZE}}
    /\ store_exists = FALSE
    /\ store = {}
    /\ cached_annotations = {}
    /\ dpc = "ready"
    /\ run_error = NoExc
    /\ generated = <<>>
    /\ runs = 0
    /\ store_log = <<>>
    /\ pipeline_config = NoConfig
    /\ epc = "ready"
    /\ call_config = NoConfig
    /\ execute_calls = 0
    /\ execution_results = <<>>
    /\ XInitIdle
    /\ GInitIdle
    /\ VInitIdle
    /\ BInitIdle

\* the call up to `materialize`: the cache key, the log line, the asset list
ExecutePipeline ==
    /\ epc \in {"ready", "returned"}
    /\ execute_calls < MaxRuns
    /\ execute_calls' = execute_calls + 1
    /\ call_config' \in ExecutorConfigs
    /\ epc' = "called"
    /\ dpc' = "ready"
    /\ UNCHANGED <<store_exists, store, preprocessed_training_data,
                   cached_annotations, run_error, generated, runs, store_log,
                   pipeline_config, execution_results,
                   xvars, gvars, vvars, bvars>>

\* materialize runs the assets with the call's configuration as the resource
\* `pipeline_config`
MaterializeAssets ==
    /\ epc = "called"
    /\ dpc = "ready"
    /\ StartRun
    /\ pipeline_config' = call_config

\* materialize raises before it runs the assets (with raise_on_error=False a
\* failing asset is reported in the result, never raised): the handler's result
MaterializeRaises ==
    /\ epc = "called"
    /\ dpc = "ready"
    /\ \E m \in ExceptionMessages :
          LET out == execute_pipeline(call_config, MaterializeRaised(m),
                                      store_exists, store)
          IN  IF out.raised
                THEN /\ epc' = "raised"
                     /\ UNCHANGED execution_results
                ELSE /\ epc' = "returned"
                     /\ execution_results' =
                            Append(execution_results, out.result)
    /\ UNCHANGED <<call_config, execute_calls, xvars, gvars, vvars, bvars,
                   pvars>>

\* materialize returned: `result.success` is whether the run of
\* data_annotations succeeded
MaterializeReturns ==
    /\ epc = "called"
    /\ dpc \in {"succeeded", "failed"}
    /\ LET out == execute_pipeline(call_config,
                                   MaterializeResult(dpc = "succeeded"),
                                   store_exists, store)
       IN  IF out.raised
             THEN /\ epc' = "raised"
                  /\ UNCHANGED execution_results
             ELSE /\ epc' = "returned"
                  /\ execution_results' = Append(execution_results, out.result)
    /\ UNCHANGED <<call_config, execute_calls, xvars, gvars, vvars, bvars,
                   pvars>>

ENext ==
    \/ ExecutePipeline
    \/ MaterializeAssets
    \/ MaterializeRaises
    \/ MaterializeReturns
    \/ NextBatch
    \/ ProcessRow
    \/ ReturnProcessed
    \/ FinishRun

SpecExecutor == EInit /\ [][ENext]_vars

-----------------------------------------------------------------------------
(* Claims about the Retry Orchestrator *)

Finished == pc \in {"done", "raised"}

AllVerdictsFalse == \A i \in 1..Len(verdicts) : ~verdicts[i].result

C1_Bounded ==
    /\ attempt < max_attempts
    /\ Len(backend_log) <= 2 * max_attempts
    /\ \A i \in 1..Len(backend_log) : backend_log[i].attempt < max_attempts
    /\ \A i, j \in 1..Len(backend_log) :
          (/\ backend_log[i].attempt = backend_log[j].attempt
           /\ backend_log[i].statement = backend_log[j].statement) => i = j

\* C1: for every max_attempts = k >= 1 and whatever the backend, the extractor
\* and the validator do, generate_and_validate ends (returns or raises), never
\* starts an attempt beyond the k-th, and calls the backend at most 2k times:
\* at most one premise call and one hypothesis call per attempt.
C1_RetryBound == []C1_Bounded /\ <>Finished

\* all k attempts were used and each made both backend calls
C1_Witness ==
    /\ pc = "done"
    /\ max_attempts >= 2
    /\ attempt = max_attempts - 1
    /\ Len(backend_log) = 2 * max_attempts

\* the rule of the spec, on the verdict of the validator call just made
C2_Rule(v) == (v /\ label = CONTRADICTION) \/ label # CONTRADICTION

C2_Step ==
    pc = "validate" =>
        LET v == verdicts'[Len(verdicts')].result
            accepted == /\ pc' = "done"
                        /\ ret' = Returned(last_metta_premise, last_metta_hypothesis, TRUE)
            retried == /\ pc' = "premise"
                       /\ attempt' = attempt + 1
                       /\ ret' = Running
            exhausted == /\ pc' = "done"
                         /\ ~ret'.is_valid
                         /\ attempt = max_attempts - 1
        IN  /\ accepted <=> C2_Rule(v)
            /\ ~accepted => (retried \/ exhausted)

ValidatorRanAndSaidFalse ==
    \A i \in 1..Len(verdicts) : verdicts[i].runner /\ ~verdicts[i].result

\* C3: with the label "contradiction" and a validator that only ever answers
\* false, a call that returns has run all max_attempts attempts and returns
\* is_valid = false.
C3_ContradictionExhausts ==
    (label = "contradiction" /\ pc = "done" /\ ValidatorRanAndSaidFalse) =>
        (~ret.is_valid /\ attempt = max_attempts - 1)

C5_ValidHasBothExpressions ==
    (pc = "done" /\ ret.is_valid) =>
        (ret.metta_premise # NoneText /\ ret.metta_hypothesis # NoneText)

\* C6: in both backend variants a provider failure yields the outcome
\* (None, no_content), and no exception leaves the generate call: the
\* orchestrator goes on with a failed premise, or with a null hypothesis.
C6_ProviderFailureIsNoContent ==
    (backend_log # <<>> /\ ~backend_log[Len(backend_log)].provider_ok) =>
        /\ ret.status # "raised"
        /\ (backend_log[Len(backend_log)].statement = "premise" =>
                metta_premise_result = GenerationResult(NoneText, NO_CONTENT))
        /\ (backend_log[Len(backend_log)].statement = "hypothesis" =>
                last_metta_hypothesis = NoneText)

\* the step is a premise generation that returned without an expression
PremiseSkipped ==
    /\ pc = "premise"
    /\ pc' # "raised"
    /\ premise_calls' = premise_calls + 1
    /\ Falsy(metta_premise_result'.expression)

C25_Step ==
    PremiseSkipped =>
        /\ hypothesis_calls' = hypothesis_calls
        /\ verdicts' = verdicts
        /\ last_metta_premise' = last_metta_premise
        /\ last_metta_hypothesis' = last_metta_hypothesis
        /\ additional_context' = additional_context
        /\ \/ /\ attempt + 1 < max_attempts
              /\ attempt' = attempt + 1
              /\ pc' = "premise"
              /\ ret' = ret
           \/ /\ attempt + 1 = max_attempts
              /\ pc' = "done"
              /\ ret' = Returned(last_metta_premise, last_metta_hypothesis, FALSE)

\* C25: an attempt whose premise generation yields no expression makes no
\* hypothesis call and no validator call, uses up one attempt of the budget and
\* leaves the last pair and the corrective context as they were.
C25_PremiseSkip == [][C25_Step]_vars

\* the last attempt was skipped after an earlier attempt had left a pair and a
\* corrective context: the call returned that pair
C25_Witness ==
    /\ pc = "done"
    /\ ~ret.is_valid
    /\ Len(verdicts) = 1
    /\ premise_calls = 2
    /\ hypothesis_calls = 1
    /\ additional_context.present
    /\ ret.metta_premise # NoneText
    /\ backend_log[Len(backend_log)].statement = "premise"

\* the validator calls of the attempts before attempt a; each was not accepted
VerdictsBefore(a) == {j \in 1..Len(verdicts) : verdicts[j].attempt < a}

\* the corrective context an attempt is due: none before the first validated
\* attempt, else the one naming the most recent non-accepted pair
ContextDue(a) ==
    IF VerdictsBefore(a) = {}
    THEN [present |-> FALSE, metta_premise |-> NoneText, metta_hypothesis |-> NoneText]
    ELSE LET last == verdicts[Max(VerdictsBefore(a))]
         IN  [present |-> TRUE, metta_premise |-> last.metta_premise,
              metta_hypothesis |-> last.metta_hypothesis]

\* the premise call of the attempt of the i-th generation call
PremiseCallOf(i) ==
    CHOOSE j \in 1..i : /\ backend_log[j].statement = "premise"
                        /\ backend_log[j].attempt = backend_log[i].attempt

\* C26: the premise call of attempt 0 gets no context; the premise and the
\* hypothesis call of an attempt that follows a validated, non-accepted attempt
\* get the corrective context of the most recent non-accepted pair; every
\* hypothesis call gets the narration of the premise expression generated in
\* its own attempt.
C26_ContextFlow ==
    \A i \in 1..Len(backend_log) :
        LET c == backend_log[i]
        IN  /\ (c.statement = "premise" /\ c.attempt = 0) => ~c.context.present
            /\ c.statement = "premise" => c.context = ContextDue(c.attempt)
            /\ c.statement = "hypothesis" =>
                  /\ c.context.additional = ContextDue(c.attempt)
                  /\ c.context.narrates = backend_log[PremiseCallOf(i)].expression

\* the hypothesis call of the third attempt got the pair of the second attempt,
\* which differs from the pair of the first
C26_Witness ==
    /\ Len(verdicts) >= 2
    /\ verdicts[1].metta_hypothesis # verdicts[2].metta_hypothesis
    /\ \E i \in 1..Len(backend_log) :
          /\ backend_log[i].statement = "hypothesis"
          /\ backend_log[i].attempt = 2
          /\ backend_log[i].context.additional.metta_hypothesis
                = verdicts[2].metta_hypothesis

\* the hypothesis generation calls made so far
HypothesisCalls == {i \in 1..Len(backend_log) : backend_log[i].statement = "hypothesis"}

\* premise generation gave no expression in every attempt
EveryPremiseFailed ==
    \A i \in 1..Len(backend_log) :
        backend_log[i].statement = "premise" => Falsy(backend_log[i].expression)

\* C27: a call that ran out of attempts returns is_valid = false with the pair
\* of the most recent attempt that reached hypothesis generation; both
\* expressions are null exactly when premise generation gave no expression in
\* every attempt, and a null premise never comes with a non-null hypothesis.
C27_ExhaustedReturnsLastPair ==
    (pc = "done" /\ ~ret.is_valid) =>
        /\ ret.status = "returned"
        /\ HypothesisCalls # {} =>
              LET last == Max(HypothesisCalls)
              IN  /\ ret.metta_premise = backend_log[PremiseCallOf(last)].expression
                  /\ ret.metta_hypothesis = backend_log[last].expression
        /\ (ret.metta_premise = NoneText /\ ret.metta_hypothesis = NoneText)
              <=> EveryPremiseFailed
        /\ ~(ret.metta_premise = NoneText /\ ret.metta_hypothesis # NoneText)

\* two validated attempts with different pairs, then a skipped attempt: the
\* pair of the second attempt is returned
C27_Witness ==
    /\ pc = "done"
    /\ ~ret.is_valid
    /\ Len(verdicts) = 2
    /\ premise_calls = 3
    /\ verdicts[1].metta_hypothesis # verdicts[2].metta_hypothesis
    /\ ret.metta_hypothesis = verdicts[2].metta_hypothesis

\* the model identifier of the call starts with gpt or with o1
C28_OpenAIRouted ==
    \/ /\ Len(annotation_model) >= 3
       /\ <<annotation_model[1], annotation_model[2], annotation_model[3]>>
              = <<"g", "p", "t">>
    \/ /\ Len(annotation_model) >= 2
       /\ <<annotation_model[1], annotation_model[2]>> = <<"o", "1">>

\* C28: every generation call of one generate_and_validate invocation, premise
\* and hypothesis calls of all attempts, goes to the same backend variant: the
\* OpenAI-routed one if and only if the model identifier starts with gpt or o1.
C28_BackendSelection ==
    \A i \in 1..Len(backend_log) :
        backend_log[i].variant = IF C28_OpenAIRouted THEN "openai" ELSE "ollama"

\* an invocation for model o1 that made premise and hypothesis calls in two
\* attempts, all OpenAI-routed
C28_Witness ==
    /\ annotation_model = <<"o", "1">>
    /\ hypothesis_calls >= 2
    /\ premise_calls >= 2
    /\ \A i \in 1..Len(backend_log) : backend_log[i].variant = "openai"

-----------------------------------------------------------------------------
(* Claims about the Expression Extractor *)

\* C7: the extractor is total: on every content it returns an outcome with an
\* expression or a failure reason, and raises nothing.
C7_ExtractorTotal ==
    xpc = "extracted" =>
        /\ outcome.exc = NoExc
        /\ \/ outcome.expression # NoneText
           \/ outcome.failure_reason \in {NO_CONTENT, EMPTY_EXPRESSION}

\* the first character of the line that is not whitespace is ";"
IsCommentLine(line) ==
    LET ink == {i \in 1..Len(line) : ~IsSpace(line[i])}
    IN  ink # {} /\ line[Min(ink)] = ";"

HasCommentLine(text) ==
    \E i \in 1..Len(splitlines(text)) : IsCommentLine(splitlines(text)[i])

\* the lines left after fence stripping, without the comment lines
WithoutCommentLines(text) ==
    LET opened == DropOpeningFence(splitlines(text))
        inner == IF Len(opened) = 0 THEN opened ELSE DropClosingFence(opened)
    IN  SelectSeq(inner, LAMBDA line : ~IsCommentLine(line))

\* C8: extraction removes exactly the lines whose first non-whitespace
\* character is ";" and keeps every other line, in order and unchanged.
C8_CommentLinesRemoved ==
    (xpc = "parsed" /\ Len(splitlines(content)) >= 1 /\ parsed # IndexError) =>
        parsed = strip(join(WithoutCommentLines(content)))

FenceLinesOf(lines) == {i \in 1..Len(lines) : HasFence(lines[i])}

\* the response has prose and, after it, a fenced block
ProseAroundFencedBlock(text) ==
    LET lines == splitlines(text)
        fences == FenceLinesOf(lines)
    IN  /\ Cardinality(fences) >= 2
        /\ \E i \in 1..Len(lines) :
              /\ i < Max(fences \ {Max(fences)}) \/ i > Max(fences)
              /\ ~HasFence(lines[i])
              /\ strip(lines[i]) # <<>>

\* what stands between the last two fence lines
LastFencedBlock(text) ==
    LET lines == splitlines(text)
        fences == FenceLinesOf(lines)
        closing == Max(fences)
        opening == Max(fences \ {closing})
    IN  strip(join(SubSeq(lines, opening + 1, closing - 1)))

\* C9: of a response with explanatory prose around fenced blocks, only the
\* content of the last fenced block is returned.
C9_LastFencedBlock ==
    (xpc = "parsed" /\ ProseAroundFencedBlock(content)) =>
        parsed = LastFencedBlock(content)

BreaksOf(text) == {i \in 1..Len(text) : IsLineBreak(text[i])}

\* the text is an opening fence line, a line break, some T, a line break and
\* a closing fence line
IsWrapped(text) ==
    LET lines == splitlines(text)
    IN  /\ Len(lines) >= 3
        /\ HasFence(lines[1])
        /\ HasFence(lines[Len(lines)])
        /\ ~IsLineBreak(text[Len(text)])

\* the T of a wrapped text
Wrapped(text) ==
    LET first == Min(BreaksOf(text))
        last == Max(BreaksOf(text))
        from == IF text[first] = "\r" /\ text[first + 1] = "\n"
                THEN first + 2 ELSE first + 1
        to == IF text[last] = "\n" /\ text[last - 1] = "\r"
              THEN last - 2 ELSE last - 1
    IN  SubSeq(text, from, to)

C10_Case(text) ==
    IF IsWrapped(text) THEN ~HasCommentLine(Wrapped(text))
    ELSE FenceLinesOf(splitlines(text)) = {} /\ ~HasCommentLine(text)

C10_Text(text) == IF IsWrapped(text) THEN Wrapped(text) ELSE text

\* C10 as stated: a text T without comment lines, wrapped in an opening and a
\* closing fence line, comes back as T stripped, everything inside verbatim;
\* content without fence lines comes back stripped and otherwise unchanged.
C10_FenceStrippingVerbatim ==
    (xpc = "parsed" /\ C10_Case(content)) =>
        parsed = strip(C10_Text(content))

\* C10 as amended: it comes back as T (or the unfenced content) with every
\* line break "\n", "\r" or "\r\n" turned into "\n", and then stripped; the
\* characters of the lines, indentation, blank lines and single backticks are
\* kept.
C10_FenceStrippingNormalised ==
    (xpc = "parsed" /\ C10_Case(content)) =>
        parsed = strip(join(splitlines(C10_Text(content))))

\* a tagged fence around two lines, one indented, with a single backtick
C10_Witness ==
    /\ xpc = "parsed"
    /\ IsWrapped(content)
    /\ ~HasCommentLine(Wrapped(content))
    /\ HasFence(splitlines(content)[1]) /\ splitlines(content)[1] # FenceLine
    /\ Len(splitlines(Wrapped(content))) = 2
    /\ \E i \in 2..Len(parsed) - 1 : parsed[i] = " "
    /\ \E i \in 1..Len(parsed) : parsed[i] = Backtick

\* C11: extraction is stable under re-extraction: extracting the extracted
\* expression again gives the same outcome.
C11_Idempotent ==
    xpc = "reextracted" => reextracted = outcome

C13_ExactlyOneField ==
    (xpc \in {"extracted", "generated"} /\ outcome.exc = NoExc) =>
        \/ /\ outcome.failure_reason = NoneReason
           /\ outcome.expression # NoneText
           /\ Len(outcome.expression) > 0
           /\ ~IsSpace(outcome.expression[1])
           /\ ~IsSpace(outcome.expression[Len(outcome.expression)])
        \/ /\ outcome.expression = NoneText
           /\ outcome.failure_reason \in {NO_CONTENT, EMPTY_EXPRESSION}

\* a backend call that returns the expression of a fenced, indented body
C13_Witness ==
    /\ xpc = "generated"
    /\ outcome.expression # NoneText
    /\ HasFence(splitlines(content)[1])
    /\ \E i \in 1..Len(content) - 1 : IsLineBreak(content[i]) /\ content[i + 1] = " "

-----------------------------------------------------------------------------
(* Claims about the Contradiction Validator *)

\* C14: a validation call returns a boolean and raises nothing; it returns
\* false without creating a reasoning context when an expression is absent,
\* false when the engine fails (loading the document, asserting an
\* expression, querying), and true only when the query has an instance.
C14_ValidatorNeverFatal ==
    \A i \in 1..Len(vcalls) :
        LET c == vcalls[i]
            absent == Falsy(c.metta_premise) \/ Falsy(c.metta_hypothesis)
        IN  /\ c.result \in BOOLEAN
            /\ absent => (~c.result /\ ~c.runner /\ c.engine = "not_run")
            /\ ~absent => c.runner
            /\ c.engine = "error" => ~c.result
            /\ c.result => c.engine = "instance"
            /\ (background # "ok" \/ Malformed(c.metta_premise)
                  \/ Malformed(c.metta_hypothesis)) => ~c.result

\* a call that found the contradiction, then a call the engine failed on
C14_Witness ==
    /\ Len(vcalls) = 2
    /\ vcalls[1].result
    /\ vcalls[2].engine = "error"
    /\ ~vcalls[2].result

\* the verdict of a pair on a context holding the document and the pair only
FreshVerdict(metta_premise, metta_hypothesis) ==
    /\ ~Falsy(metta_premise)
    /\ ~Falsy(metta_hypothesis)
    /\ background = "ok"
    /\ ~Malformed(metta_premise)
    /\ ~Malformed(metta_hypothesis)
    /\ Contradicts({metta_premise, metta_hypothesis})

\* C15: each validation call works on a newly created reasoning context: its
\* verdict is that of its two expressions and the document alone, whatever
\* calls came before, so equal pairs get equal verdicts.
C15_ValidatorFresh ==
    /\ \A i \in 1..Len(vcalls) :
          vcalls[i].result =
              FreshVerdict(vcalls[i].metta_premise, vcalls[i].metta_hypothesis)
    /\ \A i, j \in 1..Len(vcalls) :
          (/\ vcalls[i].metta_premise = vcalls[j].metta_premise
           /\ vcalls[i].metta_hypothesis = vcalls[j].metta_hypothesis)
              => vcalls[i].result = vcalls[j].result

\* a contradictory pair, then a pair that shares an atom with it and is not
C15_Witness ==
    /\ Len(vcalls) = 2
    /\ vcalls[1].result
    /\ vcalls[2].runner
    /\ vcalls[2].metta_premise = vcalls[1].metta_premise
    /\ vcalls[2].engine = "no_instance"

-----------------------------------------------------------------------------
(* Claims about the Batch Runner *)

C16_Count == Min({Len(rows), subset_size})

\* C16: a call of process_in_batches with subset_size > 0 and batch_size > 0
\* that returns has invoked process exactly min(len(rows), subset_size) times,
\* once on each row of the prefix and in the original order, the k-th call in
\* the chunk that starts at offset ((k - 1) div batch_size) * batch_size (so
\* chunks are consecutive, of batch_size rows, only the last may be shorter),
\* and returns the results in that same order.
C16_BatchContract ==
    (process_fn = "process" /\ bpc = "returned") =>
        /\ Len(process_calls) = C16_Count
        /\ \A k \in 1..Len(process_calls) :
              /\ process_calls[k].row = rows[k]
              /\ process_calls[k].chunk = ((k - 1) \div batch_size) * batch_size
        /\ processed_rows = [k \in 1..C16_Count |-> Processed(rows[k])]

\* 6 rows, subset_size 5, batch_size 2: five calls in chunks 2, 2, 1
C16_Witness ==
    /\ process_fn = "process"
    /\ bpc = "returned"
    /\ Len(rows) = 6
    /\ subset_size = 5
    /\ batch_size = 2
    /\ [k \in 1..5 |-> process_calls[k].chunk] = <<0, 0, 2, 2, 4>>
    /\ Len(processed_rows) = 5

-----------------------------------------------------------------------------
(* Claims about the Annotation Store *)

\* the source row a dict handed to process_row was made from
SourceIndexOf(row) ==
    (CHOOSE r \in Records(preprocessed_training_data) :
        r.premise = row.premise /\ r.hypothesis = row.hypothesis).index

\* C17: after any sequence of pipeline runs no two records of the store file
\* have the same index, and every generate_and_validate call of a run is for a
\* source row whose index is absent from the store the run read.
C17_DedupInvariant ==
    /\ \A r1 \in store, r2 \in store : r1.index = r2.index => r1 = r2
    /\ \A k \in 1..Len(generated) :
          SourceIndexOf(generated[k].row) \notin IndexColumn(cached_annotations)

\* a second run that read a store with records generated for a row outside it
C17_Witness ==
    /\ runs >= 2
    /\ cached_annotations # {}
    /\ Len(generated) > 0
    /\ Len(preprocessed_training_data) > Cardinality(cached_annotations)

\* the run has ended, whichever way
RunEnded == dpc \in {"succeeded", "failed"}

\* C19: when a run has ended, every row for which generate_and_validate
\* returned, a row that ran out of attempts included, has not made the run fail
\* and is a record of the store with the returned expressions and is_valid flag.
C19_ProcessedRowsPersisted ==
    RunEnded =>
        \A k \in 1..Len(generated) :
            LET row == generated[k].row
                result == generated[k].result
            IN  result.status = "returned" =>
                    /\ dpc = "succeeded"
                    /\ \E r \in store :
                          /\ r.index = SourceIndexOf(row)
                          /\ r.metta_premise = result.metta_premise
                          /\ r.metta_hypothesis = result.metta_hypothesis
                          /\ "is_valid" \in DOMAIN r
                          /\ r.is_valid = result.is_valid

\* the records of the store that were made from the rows the run generated for
PersistedOfRun ==
    { r \in store : \E k \in 1..Len(generated) :
                        r.index = SourceIndexOf(generated[k].row) }

C21_Aborted ==
    (dpc = "failed" /\ bpc = "raised") =>
        /\ store = cached_annotations
        /\ PersistedOfRun = {}

C21_Step ==
    (run_error # NoExc /\ runs' = runs) =>
        /\ process_calls' = process_calls
        /\ generated' = generated
        /\ store' = store

\* C21: once process_fn has raised for a row, the run makes no further call of
\* process_fn (neither for the rest of the chunk nor for later chunks), none of
\* the rows the run generated for is persisted, and the store holds what the
\* run read at its start.
C21_ExceptionAborts == []C21_Aborted /\ [][C21_Step]_vars

\* the first row of a chunk of two raised, over a store that held a record
C21_Witness ==
    /\ dpc = "failed"
    /\ bpc = "raised"
    /\ Len(batch) = 2
    /\ Len(process_calls) = 1
    /\ store # {}

Reads == SelectSeq(store_log, LAMBDA a : a.op = "read")
Writes == SelectSeq(store_log, LAMBDA a : a.op = "write")

C23_StoreOfOwnCacheKey ==
    \A k \in 1..Len(store_log) :
        store_log[k].path = annotations_path(pipeline_config)

\* the attempt budget the configuration of the run asks for
ConfiguredBudget ==
    IF pipeline_config.max_attempts_option = NotGiven
    THEN 3
    ELSE pipeline_config.max_attempts_option

\* C24: every generate_and_validate call of a run is made with the attempt
\* budget of the run's configuration: its max_attempts option, 3 when the
\* option is not given.
C24_BudgetFromConfig ==
    \A k \in 1..Len(generated) : generated[k].max_attempts = ConfiguredBudget

-----------------------------------------------------------------------------
(* Claims about the Pipeline Executor *)

\* the status the claim gives to an outcome of materialize
C29_StatusOf(materialized) ==
    IF materialized.kind = "raised" THEN ERROR
    ELSE IF materialized.success THEN SUCCESS ELSE FAILED

C29_ErrorIffNotSuccess(r) == (r.error # Null) <=> (r.status # SUCCESS)

\* C29: execute_pipeline never raises and returns exactly one ExecutionResult
\* per call; the status is SUCCESS when materialization succeeded, FAILED when
\* it reported failure, ERROR when an exception occurred; the error string is
\* non-null if and only if the status is not SUCCESS.
C29_OneResultPerCall ==
    /\ epc # "raised"
    /\ Len(execution_results) =
           IF epc = "called" THEN execute_calls - 1 ELSE execute_calls
    /\ \A i \in 1..Len(execution_results) :
          /\ execution_results[i].status \in {SUCCESS, FAILED, ERROR}
          /\ C29_ErrorIffNotSuccess(execution_results[i])
    /\ epc = "returned" =>
          LET r == execution_results[Len(execution_results)]
          IN  /\ r.status = SUCCESS => dpc = "succeeded"
              /\ r.status = FAILED => dpc = "failed"
              /\ r.cache_key = cache_key(call_config)
    /\ \A cfg \in ExecutorConfigs, m \in MaterializeOutcomes :
          LET out == execute_pipeline(cfg, m, store_exists, store)
          IN  /\ ~out.raised
              /\ out.result.status = C29_StatusOf(m)
              /\ C29_ErrorIffNotSuccess(out.result)

\* two calls returned: one after the run of data_annotations failed, one
\* after materialize raised an exception whose str() is empty
C29_Witness ==
    /\ epc = "returned"
    /\ execute_calls = 2
    /\ Len(execution_results) = 2
    /\ execution_results[1].status = FAILED
    /\ run_error = AttributeError
    /\ execution_results[2].status = ERROR
    /\ execution_results[2].error = ""

-----------------------------------------------------------------------------
(* Claims about repeated runs, the reported count and overlapping runs *)

SourceIndexes ==
    {preprocessed_training_data[k].index :
        k \in 1..Len(preprocessed_training_data)}

\* the run read a store that holds the index of every source row
C31_ReadCompleteStore ==
    /\ Len(preprocessed_training_data) > 0
    /\ SourceIndexes \subseteq IndexColumn(cached_annotations)

\* C31: a run started from a store that holds every source-row index makes no
\* generation call, succeeds and rewrites the store with the same records
\* (re-running is idempotent); successful runs add min(subset_size, number of
\* source rows absent from the store) records until the store is complete.
C31_IdempotentRerun ==
    (RunEnded /\ C31_ReadCompleteStore) =>
        /\ Len(generated) = 0
        /\ dpc = "succeeded"
        /\ Len(Writes) = 1
        /\ store = cached_annotations

\* the result execute_pipeline returns for the configuration cfg when
\* materialize reports success, with the store file as it is
C32_SuccessResult(cfg) ==
    execute_pipeline(cfg, MaterializeResult(TRUE), store_exists, store).result

=============================================================================
